---- MODULE Spec2Model ----
(***************************************************************************)
(* A model of litstudy/common.py: the DocumentSet algebra (filter,         *)
(* filter_duplicates, union, difference), the DocumentID parsers and the   *)
(* keyword constructors of Document, Author and Affiliation.               *)
(*                                                                         *)
(* Python lists are objects of a heap (list id -> sequence of documents),  *)
(* so that "a new list" and "the same list" are different things.  Python  *)
(* values that may be None are records tagged with their type.             *)
(***************************************************************************)
EXTENDS Integers, Sequences, FiniteSets, TLC

VARIABLES
    heap,       \* the list objects: list id -> sequence of Documents
    sets,       \* the client's DocumentSet variables A, B, R
    key,        \* the key function handed to the operations
    last,       \* the most recent DocumentSet call: its operands and result
    id,         \* DocumentID.id
    is_doi,     \* DocumentID.is_doi
    parsed,     \* the most recent DocumentID.parse_* call and its argument
    cls,        \* the class being constructed
    kwargs,     \* the keyword arguments of the constructor call
    outcome     \* what the constructor call produced

vars == <<heap, sets, key, last, id, is_doi, parsed, cls, kwargs, outcome>>
setVars == <<heap, sets, key, last>>
idVars == <<id, is_doi, parsed>>
ctorVars == <<cls, kwargs, outcome>>

----------------------------------------------------------------------------
(* Bounds *)

\* the longest list of each of the two sets a single call is made on
MaxLen == 2

\* the longest list of the set a chain of calls starts from
MaxChainLen == 3

----------------------------------------------------------------------------
(* Python values *)

None == [type |-> "NoneType"]
Str(s) == [type |-> "str", chars |-> s]

\* bool(v) of a str or None
Truthy(v) == v.type = "str" /\ v.chars # <<>>

Range(s) == {s[i] : i \in 1..Len(s)}
SeqsUpTo(S, n) == UNION {[1..m -> S] : m \in 0..n}

----------------------------------------------------------------------------
(* DocumentSet *)

Documents == {"docA", "docB", "docC"}
KeyValues == {"10.1/x", "Same Title"}
KeyFunctions == [Documents -> KeyValues]
SetNames == {"A", "B", "R"}

\* DocumentSet.__init__: the object keeps a reference to the list it is given
DocumentSet(docs) == [docs |-> docs]

\* a list display, comprehension or concatenation makes a new list object
Alloc(h, elems) ==
    LET n == CHOOSE m \in 1..(Cardinality(DOMAIN h) + 1) :
                 /\ m \notin DOMAIN h
                 /\ \A j \in 1..(m - 1) : j \in DOMAIN h
    IN [heap |-> h @@ (n :> elems), ret |-> DocumentSet(n)]

\* [d for d in self.docs if predicate(d)]
filter(h, self, predicate) ==
    Alloc(h, SelectSeq(h[self.docs], LAMBDA d : d \in predicate))

\* variant: a duplicate is removed while iterating, so the document after it
\* is passed over and stays
RECURSIVE FilterDuplicatesLoopSkipNext(_, _, _, _, _)
FilterDuplicatesLoopSkipNext(docs, k, i, keys, result) ==
    IF i > Len(docs) THEN result
    ELSE IF k[docs[i]] \notin keys
         THEN FilterDuplicatesLoopSkipNext(docs, k, i + 1, keys \cup {k[docs[i]]},
                                           Append(result, docs[i]))
         ELSE IF i + 1 > Len(docs) THEN result
              ELSE FilterDuplicatesLoopSkipNext(docs, k, i + 2, keys,
                                                Append(result, docs[i + 1]))

\* variant: keys.add(k) is missing
RECURSIVE FilterDuplicatesLoopNoAdd(_, _, _, _, _)
FilterDuplicatesLoopNoAdd(docs, k, i, keys, result) ==
    IF i > Len(docs) THEN result
    ELSE IF k[docs[i]] \notin keys
         THEN FilterDuplicatesLoopNoAdd(docs, k, i + 1, keys, Append(result, docs[i]))
         ELSE FilterDuplicatesLoopNoAdd(docs, k, i + 1, keys, result)

\* the loop of filter_duplicates, at document i with keys and result so far
RECURSIVE FilterDuplicatesLoop(_, _, _, _, _)
FilterDuplicatesLoop(docs, k, i, keys, result) ==
    IF i > Len(docs) THEN result
    ELSE IF k[docs[i]] \notin keys
         THEN FilterDuplicatesLoop(docs, k, i + 1, keys \cup {k[docs[i]]},
                                   Append(result, docs[i]))
         ELSE FilterDuplicatesLoop(docs, k, i + 1, keys, result)

filter_duplicates_skip_next(h, self, k) ==
    Alloc(h, FilterDuplicatesLoopSkipNext(h[self.docs], k, 1, {}, <<>>))

filter_duplicates_no_add(h, self, k) ==
    Alloc(h, FilterDuplicatesLoopNoAdd(h[self.docs], k, 1, {}, <<>>))

\* keys = set(); result = []; for doc in self.docs: ...
filter_duplicates(h, self, k) ==
    Alloc(h, FilterDuplicatesLoop(h[self.docs], k, 1, {}, <<>>))

\* variant: other.docs + self.docs
union_other_first(h, self, other, k) ==
    LET cat == Alloc(h, h[other.docs] \o h[self.docs])
    IN filter_duplicates(cat.heap, cat.ret, k)

\* variant: self.docs is extended in place
union_in_place(h, self, other, k) ==
    LET ext == [h EXCEPT ![self.docs] = h[self.docs] \o h[other.docs]]
    IN filter_duplicates(ext, self, k)

\* variant: the concatenation is returned as it is
union_no_dedup(h, self, other, k) ==
    Alloc(h, h[self.docs] \o h[other.docs])

\* DocumentSet(self.docs + other.docs).filter_duplicates(key=key)
union(h, self, other, k) ==
    LET cat == Alloc(h, h[self.docs] \o h[other.docs])
    IN filter_duplicates(cat.heap, cat.ret, k)

\* variant: the result is deduplicated as well
difference_dedup(h, self, other, k) ==
    LET keys_other == {k[d] : d \in Range(h[other.docs])}
        kept == Alloc(h, SelectSeq(h[self.docs], LAMBDA d : k[d] \notin keys_other))
    IN filter_duplicates(kept.heap, kept.ret, k)

\* keys_other = {key(doc) for doc in other.docs}; keep self's docs outside it
difference(h, self, other, k) ==
    LET keys_other == {k[d] : d \in Range(h[other.docs])}
    IN Alloc(h, SelectSeq(h[self.docs], LAMBDA d : k[d] \notin keys_other))

\* the list objects still referenced once the call has returned
Collect(h, roots) == [l \in DOMAIN h \cap roots |-> h[l]]

NoCall == [op |-> "none"]

\* r = x.op(...): R is bound to the returned DocumentSet; the receiver and
\* the argument stay referenced by the call record, which also keeps what
\* their lists held when the call was made and whether the receiver is
\* itself what filter_duplicates returned
Return(op, x, ys, res) ==
    LET others == {sets[y].docs : y \in ys}
        newsets == [sets EXCEPT !["R"] = res.ret]
    IN /\ sets' = newsets
       /\ last' = [op |-> op,
                   self |-> sets[x].docs,
                   other |-> others,
                   selfDocs |-> heap[sets[x].docs],
                   otherDocs |-> IF ys = {} THEN <<>>
                                 ELSE heap[CHOOSE l \in others : TRUE],
                   selfDeduped |-> x = "R" /\ last.op = "filter_duplicates",
                   ret |-> res.ret.docs]
       /\ heap' = Collect(res.heap,
                          {newsets[n].docs : n \in {m \in SetNames : newsets[m] # None}}
                          \cup {sets[x].docs} \cup others)
       /\ UNCHANGED key

Bound(x) == sets[x] # None

\* the lists the client can still reach when it makes a call
Live == Collect(heap, {sets[n].docs : n \in {m \in SetNames : Bound(m)}})

\* the predicates handed to filter: the documents each one accepts
Predicates == {Documents \ {d} : d \in Documents}

Filter ==
    \E x \in SetNames, predicate \in Predicates :
        /\ Bound(x)
        /\ Return("filter", x, {}, filter(Live, sets[x], predicate))
        /\ UNCHANGED <<idVars, ctorVars>>

FilterDuplicates ==
    \E x \in SetNames :
        /\ Bound(x)
        /\ Return("filter_duplicates", x, {}, filter_duplicates(Live, sets[x], key))
        /\ UNCHANGED <<idVars, ctorVars>>

Union ==
    \E x \in SetNames, y \in SetNames :
        /\ Bound(x) /\ Bound(y)
        /\ Return("union", x, {y}, union(Live, sets[x], sets[y], key))
        /\ UNCHANGED <<idVars, ctorVars>>

Difference ==
    \E x \in SetNames, y \in SetNames :
        /\ Bound(x) /\ Bound(y)
        /\ Return("difference", x, {y}, difference(Live, sets[x], sets[y], key))
        /\ UNCHANGED <<idVars, ctorVars>>

----------------------------------------------------------------------------
(* DocumentID *)

\* a str is the tuple of its characters
DoiOrg ==
    <<"h", "t", "t", "p", ":", "/", "/", "d", "o", "i", ".", "o", "r",
      "g", "/">>
DoiIeee ==
    <<"h", "t", "t", "p", ":", "/", "/", "d", "o", "i", ".", "i", "e",
      "e", "e", "c", "o", "m", "p", "u", "t", "e", "r", "s", "o",
      "c", "i", "e", "t", "y", ".", "o", "r", "g", "/">>
DoiBody ==
    <<"1", "0", ".", "1", "/", "x", "y", "z">>
IeeeHead ==
    <<"h", "t", "t", "p", ":", "/", "/", "d", "o", "i", ".", "i", "e",
      "e", "e", "c", "o", "m", "p", "u", "t", "e", "r", "s">>
IeeeTail ==
    <<"o", "c", "i", "e", "t", "y", ".", "o", "r", "g", "/">>
Eid ==
    <<"E", "1", "2", "3">>
Title ==
    <<"T">>

\* the most DOI values are made of this many of the pieces above
MaxPieces == 3

RECURSIVE Flatten(_)
Flatten(ss) == IF ss = <<>> THEN <<>> ELSE Head(ss) \o Flatten(Tail(ss))

DoiPieces == {DoiOrg, DoiIeee, DoiBody, IeeeHead, IeeeTail}
DoiStrings == {Flatten(ps) : ps \in SeqsUpTo(DoiPieces, MaxPieces)}

\* where old occurs in s
Occurrences(s, old) ==
    {i \in 1..(Len(s) - Len(old) + 1) : SubSeq(s, i, i + Len(old) - 1) = old}

\* str.replace(old, ""): every occurrence of old, leftmost first and not
\* overlapping, is taken out of s
RECURSIVE replace(_, _)
replace(s, old) ==
    IF Occurrences(s, old) = {} THEN s
    ELSE LET i == CHOOSE j \in Occurrences(s, old) :
                      \A m \in Occurrences(s, old) : j <= m
         IN SubSeq(s, 1, i - 1) \o replace(SubSeq(s, i + Len(old), Len(s)), old)

\* DocumentID.__init__ with no doc_id
NewDocumentID == [id |-> None, is_doi |-> FALSE]

\* variant: the doi is tested with "is not None"
parse_scopus_doi_not_none(self, scopus_abstract) ==
    IF scopus_abstract.doi # None
    THEN [id |-> scopus_abstract.doi, is_doi |-> TRUE]
    ELSE IF Truthy(scopus_abstract.eid)
         THEN [self EXCEPT !.id = scopus_abstract.eid]
         ELSE [self EXCEPT !.id = scopus_abstract.title]

\* if doi: ... elif eid: ... else: title; only the first branch sets is_doi
parse_scopus(self, scopus_abstract) ==
    IF Truthy(scopus_abstract.doi)
    THEN [id |-> scopus_abstract.doi, is_doi |-> TRUE]
    ELSE IF Truthy(scopus_abstract.eid)
         THEN [self EXCEPT !.id = scopus_abstract.eid]
         ELSE [self EXCEPT !.id = scopus_abstract.title]

\* try: info["doi"] ... except KeyError: info["title"]
parse_dblp(self, dblp_result) ==
    IF "doi" \in DOMAIN dblp_result.info
    THEN [id |-> dblp_result.info.doi, is_doi |-> TRUE]
    ELSE [self EXCEPT !.id = dblp_result.info.title]

\* try: entry["doi"], the two replace calls ... except KeyError: entry["title"]
parse_bibtex(self, bibtex_entry) ==
    IF "doi" \in DOMAIN bibtex_entry
    THEN [id |-> Str(replace(replace(bibtex_entry.doi.chars, DoiOrg), DoiIeee)),
          is_doi |-> TRUE]
    ELSE [self EXCEPT !.id = bibtex_entry.title]

\* the records handed to the parsers; an absent field of a Scopus abstract
\* reads as None, an absent key of a dict is not in its domain
ScopusAbstracts ==
    [doi : {None, Str(<<>>), Str(DoiBody)},
     eid : {None, Str(<<>>), Str(Eid)},
     title : {None, Str(<<>>), Str(Title)}]

DblpResults ==
    {[info |-> i] : i \in [title : {Str(Title)}]
                          \cup [doi : {Str(<<>>), Str(DoiBody), Str(DoiOrg \o DoiBody)},
                                title : {Str(Title)}]}

BibtexEntries(dois) ==
    [title : {Str(Title)}] \cup [doi : {Str(d) : d \in dois}, title : {Str(Title)}]

NoParse == [fn |-> "none", titled |-> TRUE]

\* the call record: the parser, its argument, whether the DocumentID was
\* fresh, and whether every record so far had a title to fall back to
Parsed(fn, arg, title) ==
    [fn |-> fn, arg |-> arg, fresh |-> parsed.fn = "none",
     titled |-> parsed.titled /\ Truthy(title)]

Assign(self) == id' = self.id /\ is_doi' = self.is_doi

Self == [id |-> id, is_doi |-> is_doi]

ParseScopus ==
    \E a \in ScopusAbstracts :
        /\ Assign(parse_scopus(Self, a))
        /\ parsed' = Parsed("scopus", a, a.title)
        /\ UNCHANGED <<setVars, ctorVars>>

ParseDblp ==
    \E r \in DblpResults :
        /\ Assign(parse_dblp(Self, r))
        /\ parsed' = Parsed("dblp", r, r.info.title)
        /\ UNCHANGED <<setVars, ctorVars>>

ParseBibtex ==
    \E e \in BibtexEntries({DoiBody, DoiOrg \o DoiBody, DoiIeee \o DoiBody}) :
        /\ Assign(parse_bibtex(Self, e))
        /\ parsed' = Parsed("bibtex", e, e.title)
        /\ UNCHANGED <<setVars, ctorVars>>

\* parse_bibtex over the DOI values made of the pieces
ParseBibtexDoi ==
    \E e \in BibtexEntries(DoiStrings) :
        /\ Assign(parse_bibtex(Self, e))
        /\ parsed' = Parsed("bibtex", e, e.title)
        /\ UNCHANGED <<setVars, ctorVars>>

----------------------------------------------------------------------------
(* Document, Author, Affiliation *)

\* the most keyword arguments of a constructor call
MaxArgs == 3

\* the kwargs.pop calls of each __init__, in order; a pop without a default
\* is required
\* variant: kwargs.pop("publisher", None) is missing
DocumentPopsNoPublisher ==
    << [name |-> "id", attr |-> "id", required |-> TRUE],
       [name |-> "title", attr |-> "title", required |-> TRUE],
       [name |-> "authors", attr |-> "authors", required |-> FALSE],
       [name |-> "keywords", attr |-> "keywords", required |-> FALSE],
       [name |-> "abstract", attr |-> "abstract", required |-> FALSE],
       [name |-> "references", attr |-> "references", required |-> FALSE],
       [name |-> "year", attr |-> "year", required |-> FALSE],
       [name |-> "source", attr |-> "source", required |-> FALSE],
       [name |-> "source_type", attr |-> "source_type", required |-> FALSE],
       [name |-> "citation_count", attr |-> "citation_count", required |-> FALSE],
       [name |-> "internal", attr |-> "_internal", required |-> FALSE],
       [name |-> "language", attr |-> "language", required |-> FALSE] >>

DocumentPops ==
    << [name |-> "id", attr |-> "id", required |-> TRUE],
       [name |-> "title", attr |-> "title", required |-> TRUE],
       [name |-> "authors", attr |-> "authors", required |-> FALSE],
       [name |-> "keywords", attr |-> "keywords", required |-> FALSE],
       [name |-> "abstract", attr |-> "abstract", required |-> FALSE],
       [name |-> "references", attr |-> "references", required |-> FALSE],
       [name |-> "year", attr |-> "year", required |-> FALSE],
       [name |-> "source", attr |-> "source", required |-> FALSE],
       [name |-> "source_type", attr |-> "source_type", required |-> FALSE],
       [name |-> "citation_count", attr |-> "citation_count", required |-> FALSE],
       [name |-> "internal", attr |-> "_internal", required |-> FALSE],
       [name |-> "language", attr |-> "language", required |-> FALSE],
       [name |-> "publisher", attr |-> "publisher", required |-> FALSE] >>

AuthorPops ==
    << [name |-> "orcid", attr |-> "orcid", required |-> FALSE],
       [name |-> "name", attr |-> "name", required |-> TRUE],
       [name |-> "affiliations", attr |-> "affiliations", required |-> FALSE] >>

AffiliationPops ==
    << [name |-> "name", attr |-> "name", required |-> TRUE],
       [name |-> "city", attr |-> "city", required |-> FALSE],
       [name |-> "country", attr |-> "country", required |-> FALSE] >>

\* the value a keyword argument carries
Value(name) == [type |-> "object", of |-> name]

KeyError(message) == [status |-> "KeyError", message |-> message]

\* __init__ from pop i on: kw is what is left of kwargs, attrs the
\* attributes set so far; after the last pop anything left in kw raises
\* KeyError with the first key left, next(iter(kwargs))
RECURSIVE Construct(_, _, _, _)
Construct(pops, i, kw, attrs) ==
    IF i > Len(pops)
    THEN IF kw # <<>>
         THEN KeyError(<<"got an unexpected keyword argument ", kw[1]>>)
         ELSE [status |-> "ok", obj |-> attrs]
    ELSE LET p == pops[i]
         IN IF p.name \in Range(kw)
            THEN Construct(pops, i + 1, SelectSeq(kw, LAMBDA n : n # p.name),
                           attrs @@ (p.attr :> Value(p.name)))
            ELSE IF p.required
                 THEN KeyError(<<p.name>>)
                 ELSE Construct(pops, i + 1, kw, attrs @@ (p.attr :> None))

NoAttrs == [a \in {} |-> None]

Document__init__(kw) == Construct(DocumentPops, 1, kw, NoAttrs)
Author__init__(kw) == Construct(AuthorPops, 1, kw, NoAttrs)
Affiliation__init__(kw) == Construct(AffiliationPops, 1, kw, NoAttrs)

Pending == [status |-> "none"]

NewDocument ==
    /\ cls = "Document" /\ outcome = Pending
    /\ outcome' = Document__init__(kwargs)
    /\ UNCHANGED <<cls, kwargs, setVars, idVars>>

NewAuthor ==
    /\ cls = "Author" /\ outcome = Pending
    /\ outcome' = Author__init__(kwargs)
    /\ UNCHANGED <<cls, kwargs, setVars, idVars>>

NewAffiliation ==
    /\ cls = "Affiliation" /\ outcome = Pending
    /\ outcome' = Affiliation__init__(kwargs)
    /\ UNCHANGED <<cls, kwargs, setVars, idVars>>

\* the field names a caller may supply: those of the three classes and one
\* that none of them knows
FieldNames ==
    {"id", "title", "authors", "keywords", "abstract", "references", "year",
     "source", "source_type", "citation_count", "internal", "language",
     "publisher", "orcid", "name", "affiliations", "city", "country", "bogus"}

\* a dict holds each key once, in insertion order
KwargsDicts ==
    {kw \in SeqsUpTo(FieldNames, MaxArgs) :
         \A i, j \in 1..Len(kw) : i # j => kw[i] # kw[j]}

----------------------------------------------------------------------------
(* Claims about DocumentSet *)

\* the list the most recent call returned
Result == heap[last.ret]

Keys(docs) == {key[d] : d \in Range(docs)}

\* the positions of docs holding the first document with its key
FirstIdx(docs) ==
    {i \in 1..Len(docs) : \A j \in 1..(i - 1) : key[docs[j]] # key[docs[i]]}

\* the subsequence of docs at the positions I, in the order of docs
SubseqAt(docs, I) ==
    LET F[n \in 0..Len(docs)] ==
            IF n = 0 THEN <<>>
            ELSE IF n \in I THEN Append(F[n - 1], docs[n]) ELSE F[n - 1]
    IN F[Len(docs)]

\* C1: filter_duplicates returns exactly the first occurrence of each key:
\* no two documents of the result have the same key, every key of the
\* receiver occurs in the result, and the result is the subsequence of the
\* receiver's documents that are the earliest with their key, in order.
C1_FirstOccurrences ==
    last.op = "filter_duplicates" =>
        /\ \A i, j \in 1..Len(Result) : i # j => key[Result[i]] # key[Result[j]]
        /\ Keys(Result) = Keys(last.selfDocs)
        /\ Result = SubseqAt(last.selfDocs, FirstIdx(last.selfDocs))

C1_Witness ==
    /\ last.op = "filter_duplicates"
    /\ Len(last.selfDocs) = 3
    /\ Len(Result) = 2
    /\ key[last.selfDocs[1]] = key[last.selfDocs[3]]

\* C2: union returns the first occurrences of the receiver's documents
\* followed by the argument's: the receiver's first occurrences as a prefix,
\* then, in the argument's order, the argument's documents whose key occurs
\* neither in the receiver nor earlier in the argument.
C2_UnionIsDedupOfConcat ==
    last.op = "union" =>
        LET A == last.selfDocs
            B == last.otherDocs
            fresh == {i \in 1..Len(B) :
                         /\ key[B[i]] \notin Keys(A)
                         /\ \A j \in 1..(i - 1) : key[B[j]] # key[B[i]]}
        IN /\ Result = SubseqAt(A \o B, FirstIdx(A \o B))
           /\ Result = SubseqAt(A, FirstIdx(A)) \o SubseqAt(B, fresh)
           /\ (Keys(B) \subseteq Keys(A) => Result = SubseqAt(A, FirstIdx(A)))

C2_Witness ==
    /\ last.op = "union"
    /\ Len(last.selfDocs) = 2
    /\ Len(last.otherDocs) = 2
    /\ Cardinality(FirstIdx(last.selfDocs)) = 1
    /\ Len(Result) = 2
    /\ Result[2] = last.otherDocs[2]

\* C3 as stated: every document of the receiver is contained in the union.
C3_AllOfSelfSurvive ==
    last.op = "union" => Range(last.selfDocs) \subseteq Range(Result)

\* C3, amended: a document of the receiver is contained in the union exactly
\* when it is the earliest document of the receiver with its key, whatever
\* the argument holds.
C3_FirstOfSelfSurvive ==
    last.op = "union" =>
        \A d \in Range(last.selfDocs) :
            d \in Range(Result) <=>
                \E i \in FirstIdx(last.selfDocs) : last.selfDocs[i] = d

C3_Witness ==
    /\ last.op = "union"
    /\ Len(last.selfDocs) = 2
    /\ last.selfDocs[1] # last.selfDocs[2]
    /\ key[last.selfDocs[1]] = key[last.selfDocs[2]]
    /\ last.otherDocs # <<>>
    /\ last.selfDocs[1] \in Range(Result)
    /\ last.selfDocs[2] \notin Range(Result)

\* C4: difference returns, in the receiver's order, exactly the receiver's
\* documents whose key is the key of no document of the argument; the
\* receiver's documents that share a key with each other are all kept.
C4_DifferenceIsKeyFilter ==
    last.op = "difference" =>
        LET A == last.selfDocs
            B == last.otherDocs
        IN /\ \A d \in Range(Result) : key[d] \notin Keys(B)
           /\ Result = SubseqAt(A, {i \in 1..Len(A) : key[A[i]] \notin Keys(B)})

C4_Witness ==
    /\ last.op = "difference"
    /\ last.otherDocs # <<>>
    /\ Len(last.selfDocs) = 2
    /\ last.selfDocs[1] # last.selfDocs[2]
    /\ key[last.selfDocs[1]] = key[last.selfDocs[2]]
    /\ Result = last.selfDocs

\* C8: filter_duplicates applied to what filter_duplicates returned gives
\* the same documents in the same order.
C8_Idempotent ==
    (last.op = "filter_duplicates" /\ last.selfDeduped) =>
        Result = last.selfDocs

C8_Witness ==
    /\ last.op = "filter_duplicates"
    /\ last.selfDeduped
    /\ Len(Result) = 2

\* the list objects the client can reach before a call
Reachable == {sets[n].docs : n \in {m \in SetNames : Bound(m)}}

\* C9: a call changes no list that existed before it, the lists of its
\* receiver and argument included, and returns a DocumentSet over a list
\* object that is none of them and that holds documents of its operands.
C9_ReadOnly ==
    [][last' # last =>
          /\ \A l \in Reachable \cap DOMAIN heap' : heap'[l] = heap[l]
          /\ {last'.self} \cup last'.other \subseteq Reachable \cap DOMAIN heap'
          /\ sets'["A"] = sets["A"] /\ sets'["B"] = sets["B"]
          /\ heap'[last'.self] = last'.selfDocs
          /\ last'.ret \notin Reachable
          /\ sets'["R"] = DocumentSet(last'.ret)
          /\ Range(heap'[last'.ret])
                 \subseteq Range(last'.selfDocs) \cup Range(last'.otherDocs)]_vars

C9_Witness ==
    /\ last.op = "union"
    /\ last.self \notin last.other
    /\ last.otherDocs # <<>>
    /\ Len(Result) > Len(last.selfDocs)
    /\ heap[last.self] = last.selfDocs

----------------------------------------------------------------------------
(* Claims about DocumentID *)

\* what the three-step fallback gives, with "present" as the test of the
\* second step
Fallback(a, present(_)) ==
    IF a.doi # None /\ a.doi.chars # <<>>
    THEN [id |-> a.doi, is_doi |-> TRUE]
    ELSE IF present(a.eid)
         THEN [id |-> a.eid, is_doi |-> FALSE]
         ELSE [id |-> a.title, is_doi |-> FALSE]

IsGiven(v) == v # None
IsGivenAndNotEmpty(v) == v # None /\ v.chars # <<>>

\* C5 as stated: on a fresh DocumentID parse_scopus takes the doi when it is
\* present and not empty, otherwise the eid when it is present, otherwise
\* the title; is_doi is true in the first case only.
C5_ScopusFallbackEidPresent ==
    (parsed.fn = "scopus" /\ parsed.fresh) => Self = Fallback(parsed.arg, IsGiven)

\* C5, amended: the eid is taken when it is present and not empty; an empty
\* eid, like an absent one, falls through to the title.
C5_ScopusFallback ==
    (parsed.fn = "scopus" /\ parsed.fresh) =>
        Self = Fallback(parsed.arg, IsGivenAndNotEmpty)

\* the example of the claim: {doi: "", eid: "E123", title: "T"}
C5_Witness ==
    /\ parsed.fn = "scopus"
    /\ parsed.fresh
    /\ parsed.arg = [doi |-> Str(<<>>), eid |-> Str(Eid), title |-> Str(Title)]
    /\ id = Str(Eid)
    /\ ~is_doi

StartsWith(s, prefix) == Len(prefix) <= Len(s) /\ SubSeq(s, 1, Len(prefix)) = prefix

\* s without the known prefix it starts with, if it starts with one
StripFront(s) ==
    IF StartsWith(s, DoiOrg) THEN SubSeq(s, Len(DoiOrg) + 1, Len(s))
    ELSE IF StartsWith(s, DoiIeee) THEN SubSeq(s, Len(DoiIeee) + 1, Len(s))
    ELSE s

\* C6: parse_bibtex on an entry with a doi sets is_doi and sets id to the
\* doi without the known prefix at its front; whatever follows the front,
\* a later occurrence of a prefix included, is unchanged.
C6_StripsFrontOnly ==
    (parsed.fn = "bibtex" /\ "doi" \in DOMAIN parsed.arg) =>
        /\ is_doi
        /\ id = Str(StripFront(parsed.arg.doi.chars))

\* whether the most recent call took the id from a DOI field
TookDoi ==
    IF parsed.fn = "scopus" THEN IsGivenAndNotEmpty(parsed.arg.doi)
    ELSE IF parsed.fn = "dblp" THEN "doi" \in DOMAIN parsed.arg.info
    ELSE "doi" \in DOMAIN parsed.arg

\* C10: after any sequence of parse calls on records with a title, is_doi
\* is true exactly when the most recent call took the id from a DOI field.
C10_IsDoiTracksLastParse ==
    (parsed.fn # "none" /\ parsed.titled) => (is_doi <=> TookDoi)

----------------------------------------------------------------------------
(* Claims about the constructors *)

RequiredFields ==
    [Document |-> {"id", "title"}, Author |-> {"name"}, Affiliation |-> {"name"}]

RecognizedFields ==
    [Document |-> {"id", "title", "authors", "keywords", "abstract", "references",
                   "year", "source", "source_type", "citation_count", "internal",
                   "language", "publisher"},
     Author |-> {"name", "orcid", "affiliations"},
     Affiliation |-> {"name", "city", "country"}]

Supplied == Range(kwargs)

\* C7: construction succeeds exactly when every required field is supplied
\* and every supplied field is recognized; with the required fields
\* supplied and an unrecognized one among the rest it fails with a KeyError
\* whose message names a supplied unrecognized field, and there is no object.
C7_Construction ==
    outcome # Pending =>
        /\ outcome.status = "ok" <=>
               /\ RequiredFields[cls] \subseteq Supplied
               /\ Supplied \subseteq RecognizedFields[cls]
        /\ (/\ RequiredFields[cls] \subseteq Supplied
            /\ ~(Supplied \subseteq RecognizedFields[cls])) =>
               /\ outcome.status = "KeyError"
               /\ \E n \in Supplied \ RecognizedFields[cls] :
                      outcome.message = <<"got an unexpected keyword argument ", n>>
               /\ "obj" \notin DOMAIN outcome

\* the example of the claim: {title: "T", id: ID, bogus: 1}
C7_Witness ==
    /\ cls = "Document"
    /\ kwargs = <<"title", "id", "bogus">>
    /\ outcome = KeyError(<<"got an unexpected keyword argument ", "bogus">>)

----------------------------------------------------------------------------
(* Specifications *)

IdleSet == /\ heap = <<>> /\ sets = [n \in SetNames |-> None]
           /\ key = [d \in Documents |-> "10.1/x"] /\ last = NoCall
IdleID == id = None /\ is_doi = FALSE /\ parsed = NoParse
IdleCtor == cls = "none" /\ kwargs = <<>> /\ outcome = [status |-> "none"]

\* two DocumentSets over freshly built lists, and a key function
InitSet ==
    /\ \E da \in SeqsUpTo(Documents, MaxLen), db \in SeqsUpTo(Documents, MaxLen) :
           heap = <<da, db>>
    /\ sets = [n \in SetNames |-> IF n = "A" THEN DocumentSet(1)
                                  ELSE IF n = "B" THEN DocumentSet(2) ELSE None]
    /\ key \in KeyFunctions
    /\ last = NoCall
    /\ IdleID /\ IdleCtor

Call == Filter \/ FilterDuplicates \/ Union \/ Difference

\* one call on the two sets
NextSet ==
    \/ last = NoCall /\ Filter
    \/ last = NoCall /\ FilterDuplicates
    \/ last = NoCall /\ Union
    \/ last = NoCall /\ Difference

SpecSet == InitSet /\ [][NextSet]_vars

\* one DocumentSet, and calls on it and on what the calls return; the
\* operations only compare keys, so docA's key is fixed
InitChain ==
    /\ \E da \in SeqsUpTo(Documents, MaxChainLen) : heap = <<da>>
    /\ sets = [n \in SetNames |-> IF n = "A" THEN DocumentSet(1) ELSE None]
    /\ key \in {k \in KeyFunctions : k["docA"] = "10.1/x"}
    /\ last = NoCall
    /\ IdleID /\ IdleCtor

NextChain == Call

SpecChain == InitChain /\ [][NextChain]_vars

\* a fresh DocumentID and parse calls on it
InitID ==
    /\ id = NewDocumentID.id /\ is_doi = NewDocumentID.is_doi
    /\ parsed = NoParse
    /\ IdleSet /\ IdleCtor

NextID == ParseScopus \/ ParseDblp \/ ParseBibtex

SpecID == InitID /\ [][NextID]_vars

NextBibtex == ParseBibtexDoi

SpecBibtex == InitID /\ [][NextBibtex]_vars

\* one constructor call with a dict of keyword arguments
InitCtor ==
    /\ cls \in {"Document", "Author", "Affiliation"}
    /\ kwargs \in KwargsDicts
    /\ outcome = Pending
    /\ IdleSet /\ IdleID

NextCtor == NewDocument \/ NewAuthor \/ NewAffiliation

SpecCtor == InitCtor /\ [][NextCtor]_vars

====
